---- MODULE Spec2Model ----
(***************************************************************************)
(* Label writers of BeyondMIDI.                                            *)
(*                                                                         *)
(*   XMLWriter   (src/writer/XMLWriter.py)  : the loop over the MusicXML   *)
(*               files and, for each file, the pass over the elements of   *)
(*               song.recurse() that collects label rows and time stamps.  *)
(*   midi_writer (src/writer/MidiWriter.py) : the pass over the note_on    *)
(*               and time_signature messages of track 0.                   *)
(*   vel2dyn, midi2name (src/writer/MidiWriter.py) : pure look-ups.        *)
(*                                                                         *)
(* Time.  XMLWriter keeps offsets as Fractions of a quarter length.  The   *)
(* model draws offsets from whole quarter lengths; the array of line 98,   *)
(* duration * Fraction(time_denom / 4), is kept exactly as integers that   *)
(* count quarters of a beat (value = integer / BeatDiv).                   *)
(* midi_writer keeps `rhythm` and `beats` as Fractions with denominator    *)
(* ticks_per_beat * 4; the model keeps their numerators over that          *)
(* denominator, which is exact.  rhythm_list and beats_list hold the       *)
(* Fractions that lines 120-121 hand to float(); float() rounds to the     *)
(* nearest double, which keeps their order against whole numbers of beats  *)
(* and does not make two different multiples of 1/1920 equal.              *)
(***************************************************************************)
EXTENDS Integers, Sequences, FiniteSets, TLC

(***************************************************************************)
(* Bounds of the model.                                                    *)
(***************************************************************************)
\* elements (Note, Rest, Measure, TimeSignature, Dynamic) over all files
MaxEvents == 4
\* files found in the input directory
MaxFiles == 2
\* calls of vel2dyn that are followed
MaxCalls == 2
\* measures of uniform quarter notes fed to midi_writer
MaxMeasures == 3
\* messages of track 0 in the general pass of midi_writer
MaxMsgs == 5

\* rows of the label table read by RoseEtudes.__getitem__
MaxRows == 2
\* records of long notes emitted by midi_writer
MaxRecords == 5

\* the 4 of Fraction(time_denom / 4): stamps are counted in 1/4 beats
BeatDiv == 4

\* msg.name and msg.octave of the Note elements, and msg.tie.type
Pitches == {<<"C", 4>>, <<"D", 5>>}
TiedPitch == <<"C", 4>>
TimeSigs == {<<2, 4>>, <<4, 4>>, <<6, 8>>}
DynamicMarks == {"f"}
\* quarterLength of a Note or Rest, in quarter lengths
QLs == {1, 2}
\* note numbers, velocities (0 switches a note off), delta times and time
\* signatures of the messages of track 0, and the resolutions of the file
MidiNotes == {60, 62}
Velocities == {0, 64, 50}
Deltas == {0, 1, 240}
MidiTimeSigs == {<<4, 4>>, <<3, 4>>}
Resolutions == {480}
\* delta times of the note-off messages of long notes: 1 and 21 measures of
\* 4/4 at 480 ticks per beat
LongDeltas == {1920, 40320}
\* octaves of the rows of a label table
Octaves == {-1, 0, 4}

VARIABLES
    \* ---- XMLWriter: locals of the function --------------------------
    pc,          \* "idle" between files, "loop" inside `for msg in metadata`,
                 \* "closed" after label_frame.close(), "failed" after a raise
    err,         \* the exception that ended the run, "" if none
    num_file,    \* files completely processed
    label_frame, \* datasets created so far, in creation order
    measure, time_num, time_denom, note, octave, dynamic,
    duration,    \* list of offsets, then (line 100) of differences
    still_rest,
    data,        \* label rows
    time,        \* offset of the last stored Note / Rest ...
    time_bound,  \* ... and whether the name `time` is bound at all
    start_beat,  \* array of line 99
    stamps,      \* array of line 98 (duration before line 100 overwrites it)
    \* ---- the parsed score (music21 stream) --------------------------
    offset,      \* currentHierarchyOffset() of the next Note / Rest
    msgs,        \* Note and Rest elements of the current file consumed so far
    sigs,        \* TimeSignature elements of the current file consumed so far
    sig_at,      \* Len(msgs) when the last of them came
    events,      \* elements consumed over all files
    \* ---- midi_writer: locals of the function ------------------------
    m_pc,        \* "run" inside `for msg in rose_midi.tracks[0]`, "failed"
    m_err,       \* the exception that ended the pass, "" if none
    etude_number, ticks_per_beat,
    played, sign, ticks, upper_signature, lower_signature,
    m_measure,   \* `measure` of midi_writer
    rhythm,      \* numerator of `rhythm` over ticks_per_beat * 4
    itr,
    dynamics,    \* result of the last vel2dyn call ...
    dynamics_bound, \* ... and whether the name `dynamics` is bound
    measure_list, note_list, dynamics_list, tempo_list,
    rhythm_list, beats_list, \* numerators over ticks_per_beat * 4
    m_events,    \* messages of track 0 consumed so far
    \* ---- the MIDI track --------------------------------------------
    pos,         \* position of the last message: the sum of the delta times
                 \* of the messages so far, each turned into beats with the
                 \* time signature in force (numerator over the same unit)
    onset,       \* for each pitch, pos and velocity of the note_on that
                 \* started the note it holds or held last
    \* ---- vel2dyn: the last two calls --------------------------------
    velocity, word, prev_velocity, prev_word, calls,
    \* ---- RoseEtudes.__getitem__ -------------------------------------
    label_rows,  \* columns 3:5 (note, octave) of the rows read so far
    rose_labels  \* name_to_midi of each of them

xvars == <<pc, err, num_file, label_frame, measure, time_num, time_denom, note,
           octave, dynamic, duration, still_rest, data, time, time_bound,
           start_beat, stamps, offset, msgs, sigs, sig_at, events>>

mvars == <<m_pc, m_err, etude_number, ticks_per_beat, played, sign, ticks,
           upper_signature, lower_signature, m_measure, rhythm, itr, dynamics,
           dynamics_bound, measure_list, note_list, dynamics_list, tempo_list,
           rhythm_list, beats_list, m_events, pos, onset>>

vvars == <<velocity, word, prev_velocity, prev_word, calls>>

lvars == <<label_rows, rose_labels>>

vars == <<xvars, mvars, vvars, lvars>>

(***************************************************************************)
(* Helpers.                                                                *)
(***************************************************************************)
Last(s) == s[Len(s)]
Front(s) == SubSeq(s, 1, Len(s) - 1)

\* the boundary without the remainder taken off
BoundaryNoRemainder(t, n) == t + n

\* time + time_num - time % time_num (line 87), time_num > 0
Boundary(t, n) == t + n - (t % n)

StartRow == [tag |-> "start", note |-> "rest", octave |-> 0, dynamic |-> "none"]
EndRow == [tag |-> "end", note |-> "rest", octave |-> 0, dynamic |-> "none"]

\* duration = np.array(duration) * Fraction(time_denom / 4), in 1/BeatDiv beats
Scale(d, denom) == [i \in 1..Len(d) |-> d[i] * denom]

\* start_beat = (duration[0:-1] % time_num) + 1, in 1/BeatDiv beats
StartBeat(s, num) ==
    [i \in 1..(Len(s) - 1) |-> (s[i] % (num * BeatDiv)) + BeatDiv]

\* duration = duration[1:] - duration[0:-1]
Diff(s) == [i \in 1..(Len(s) - 1) |-> s[i + 1] - s[i]]

\* np.hstack((data[:, 0], start_beat, duration, data[:, 1:]))
Table(d, sb, du) ==
    [i \in 1..Len(d) |-> [tag |-> d[i].tag, start_beat |-> sb[i],
                          duration |-> du[i], note |-> d[i].note,
                          octave |-> d[i].octave, dynamic |-> d[i].dynamic]]

\* a Note or Rest of song.recurse() as the loop saw it: `off` is its
\* currentHierarchyOffset(), `ql` its quarterLength, `row` the index of the
\* row it appended to `data` (0 if it appended none), `num` and `denom` the
\* time signature in force when it was read
Msg(cls, name, oct, tie, off, ql, row) ==
    [cls |-> cls, name |-> name, octave |-> oct, tie |-> tie, off |-> off,
     ql |-> ql, row |-> row, num |-> time_num, denom |-> time_denom]

\* the Note elements the parser can deliver next: untied notes of any pitch,
\* and the notes of tied groups, which are all on one pitch
NoteInputs ==
    {<<p, "none">> : p \in Pitches}
        \cup {<<TiedPitch, tie>> : tie \in {"start", "continue", "stop"}}

(***************************************************************************)
(* XMLWriter.                                                              *)
(***************************************************************************)
XInit ==
    /\ pc = "idle" /\ err = "" /\ num_file = 0 /\ label_frame = <<>>
    /\ measure = 0 /\ time_num = 0 /\ time_denom = 0
    /\ note = "" /\ octave = 0 /\ dynamic = "none"
    /\ duration = <<0>> /\ still_rest = TRUE /\ data = <<StartRow>>
    /\ time = 0 /\ time_bound = FALSE
    /\ start_beat = <<>> /\ stamps = <<>>
    /\ offset = 0 /\ msgs = <<>> /\ sigs = 0 /\ sig_at = 0 /\ events = 0

\* lines 35-47: the next file is taken and the per-file values are reset;
\* `time` is not among them
BeginFile ==
    /\ pc = "idle" /\ num_file < MaxFiles
    /\ pc' = "loop"
    /\ measure' = 0 /\ time_num' = 0 /\ time_denom' = 0
    /\ note' = "" /\ octave' = 0 /\ dynamic' = "none"
    /\ duration' = <<0>> /\ still_rest' = TRUE /\ data' = <<StartRow>>
    /\ offset' = 0 /\ msgs' = <<>> /\ sigs' = 0 /\ sig_at' = 0
    /\ UNCHANGED <<err, num_file, label_frame, time, time_bound, start_beat,
                   stamps, events>>

\* lines 49-63
XNote(p, tie, ql) ==
    /\ pc = "loop" /\ events < MaxEvents
    /\ note' = p[1] /\ octave' = p[2]
    /\ time' = offset /\ time_bound' = TRUE
    /\ IF tie \in {"none", "start"}
       THEN /\ duration' = Append(duration, offset)
            /\ data' = Append(data, [tag |-> ToString(measure), note |-> p[1],
                                     octave |-> p[2], dynamic |-> dynamic])
       ELSE UNCHANGED <<duration, data>>
    /\ still_rest' = FALSE
    /\ msgs' = Append(msgs, Msg("Note", p[1], p[2], tie, offset, ql,
                                 IF tie \in {"none", "start"}
                                 THEN Len(data) + 1 ELSE 0))
    /\ offset' = offset + ql /\ events' = events + 1
    /\ UNCHANGED <<pc, err, num_file, label_frame, measure, time_num,
                   time_denom, dynamic, start_beat, stamps, sigs, sig_at>>

\* lines 65-74
XRest(ql) ==
    /\ pc = "loop" /\ events < MaxEvents
    /\ IF ~still_rest
       THEN /\ still_rest' = TRUE
            /\ note' = "rest"
            /\ time' = offset /\ time_bound' = TRUE
            /\ duration' = Append(duration, offset)
            /\ data' = Append(data, [tag |-> ToString(measure), note |-> "rest",
                                     octave |-> 0, dynamic |-> "none"])
       ELSE UNCHANGED <<still_rest, note, time, time_bound, duration, data>>
    /\ msgs' = Append(msgs, Msg("Rest", "rest", 0, "none", offset, ql,
                                 IF ~still_rest THEN Len(data) + 1 ELSE 0))
    /\ offset' = offset + ql /\ events' = events + 1
    /\ UNCHANGED <<pc, err, num_file, label_frame, measure, time_num,
                   time_denom, octave, dynamic, start_beat, stamps, sigs,
                   sig_at>>

\* lines 76-77
XMeasure ==
    /\ pc = "loop" /\ events < MaxEvents
    /\ measure' = measure + 1
    /\ events' = events + 1
    /\ UNCHANGED <<pc, err, num_file, label_frame, time_num, time_denom, note,
                   octave, dynamic, duration, still_rest, data, time,
                   time_bound, start_beat, stamps, offset, msgs, sigs, sig_at>>

\* lines 79-81
XTimeSignature(ts) ==
    /\ pc = "loop" /\ events < MaxEvents
    /\ time_num' = ts[1] /\ time_denom' = ts[2]
    /\ sigs' = sigs + 1 /\ sig_at' = Len(msgs)
    /\ events' = events + 1
    /\ UNCHANGED <<pc, err, num_file, label_frame, measure, note, octave,
                   dynamic, duration, still_rest, data, time, time_bound,
                   start_beat, stamps, offset, msgs>>

\* lines 83-84
XDynamic(v) ==
    /\ pc = "loop" /\ events < MaxEvents
    /\ dynamic' = v
    /\ events' = events + 1
    /\ UNCHANGED <<pc, err, num_file, label_frame, measure, time_num,
                   time_denom, note, octave, duration, still_rest, data, time,
                   time_bound, start_beat, stamps, offset, msgs, sigs, sig_at>>

\* lines 86-95: the two lists as they stand when the table is assembled
EndDuration ==
    LET d1 == Append(duration, Boundary(time, time_num))
    IN  IF still_rest THEN d1
        ELSE Append(d1, time + time_num + time_num - (time % time_num))

\* the end token appended without the trailing rest row being removed
EndDataNoPop == Append(data, EndRow)

EndData == Append(IF still_rest THEN Front(data) ELSE data, EndRow)

\* the dataset created before the exception leaves the loop
XRaiseStored(e) ==
    /\ pc' = "failed" /\ err' = e
    /\ label_frame' = Append(label_frame, data)
    /\ UNCHANGED num_file

\* an exception raised in lines 86-104 ends XMLWriter: line 106 is not
\* reached for this file
XRaise(e) ==
    /\ pc' = "failed" /\ err' = e
    /\ UNCHANGED <<num_file, label_frame>>

\* lines 86-108: the stream is exhausted, the table is built and stored
EndFile ==
    /\ pc = "loop"
    /\ IF ~time_bound
       THEN \* line 87 reads `time` before any assignment
            /\ XRaise("NameError")
            /\ UNCHANGED <<duration, data, start_beat, stamps>>
       ELSE IF time_num = 0
       THEN \* line 87: time % 0
            /\ XRaise("ZeroDivisionError")
            /\ UNCHANGED <<duration, data, start_beat, stamps>>
       ELSE LET s == Scale(EndDuration, time_denom)
                sb == StartBeat(s, time_num)
                du == Diff(s)
            IN  IF Len(EndData) # Len(sb)
                THEN \* line 102: np.hstack refuses columns of unequal length
                     /\ XRaise("ValueError")
                     /\ data' = EndData /\ duration' = du
                     /\ start_beat' = sb /\ stamps' = s
                ELSE /\ pc' = "idle" /\ err' = ""
                     /\ data' = Table(EndData, sb, du) /\ duration' = du
                     /\ start_beat' = sb /\ stamps' = s
                     /\ label_frame' = Append(label_frame,
                                              Table(EndData, sb, du))
                     /\ num_file' = num_file + 1
    /\ UNCHANGED <<measure, time_num, time_denom, note, octave, dynamic,
                   still_rest, time, time_bound, offset, msgs, sigs, sig_at,
                   events>>

\* lines 48-85, an element of another class (a Part or a Voice): no branch
\* of the loop takes it; the hierarchy offsets of the elements inside it
\* start again from 0
XPart ==
    /\ pc = "loop"
    /\ offset' = 0
    /\ UNCHANGED <<pc, err, num_file, label_frame, measure, time_num,
                   time_denom, note, octave, dynamic, duration, still_rest,
                   data, time, time_bound, start_beat, stamps, msgs, sigs,
                   sig_at, events>>

\* line 109
Close ==
    /\ pc = "idle"
    /\ pc' = "closed"
    /\ UNCHANGED <<err, num_file, label_frame, measure, time_num, time_denom,
                   note, octave, dynamic, duration, still_rest, data, time,
                   time_bound, start_beat, stamps, offset, msgs, sigs, sig_at,
                   events>>

(***************************************************************************)
(* vel2dyn and midi2name (MidiWriter.py).                                  *)
(***************************************************************************)
\* dyn_dict, lines 46-48
dyn_dict ==
    [v \in {20, 31, 42, 53, 64, 80, 96, 112, 127} |->
        CASE v = 20 -> "ppp" [] v = 31 -> "pp" [] v = 42 -> "p"
          [] v = 53 -> "mp" [] v = 64 -> "mf" [] v = 80 -> "f"
          [] v = 96 -> "ff" [] v = 112 -> "fff" [] v = 127 -> "ffff"]

\* what vel2dyn returns is a str or the number it was given
Word(w) == [kind |-> "str", str |-> w, number |-> 0]
Number(n) == [kind |-> "number", str |-> "", number |-> n]
NoValue == [kind |-> "unbound", str |-> "", number |-> 0]

\* the fallback the docstring of vel2dyn describes: an empty string
vel2dynEmpty(v) == IF v \in DOMAIN dyn_dict THEN Word(dyn_dict[v]) ELSE Word("")

\* lines 49-53: try: word = dyn_dict[velocity]; except: word = velocity
vel2dyn(v) == IF v \in DOMAIN dyn_dict THEN Word(dyn_dict[v]) ELSE Number(v)

note_names == <<"C", "C#", "D", "D#", "E", "F", "F#", "G", "G#", "A", "A#", "B">>

\* lines 26-33
midi2name(midi, off) ==
    IF midi = 0 THEN "R"
    ELSE LET note_val == midi + off
         IN  note_names[(note_val % 12) + 1] \o ToString((note_val \div 12) - 1)

\* line 68-69
etudes ==
    [n \in {1, 2} |->
        IF n = 1 THEN [start |-> 1, end |-> 43, down_beat |-> 1]
                 ELSE [start |-> 43, end |-> 50, down_beat |-> 1]]

(***************************************************************************)
(* midi_writer.                                                            *)
(***************************************************************************)
\* lines 67-84; rose_midi.ticks_per_beat comes from the file
MInit(en, tpb) ==
    /\ m_pc = "run" /\ m_err = ""
    /\ etude_number = en /\ ticks_per_beat = tpb
    /\ played = <<>> /\ sign = FALSE /\ ticks = 0
    /\ upper_signature = 0 /\ lower_signature = 0
    /\ m_measure = 1 /\ rhythm = (etudes[en].down_beat - 1) * tpb * 4
    /\ itr = 0
    /\ dynamics = NoValue /\ dynamics_bound = FALSE
    /\ measure_list = <<>> /\ note_list = <<>> /\ dynamics_list = <<>>
    /\ tempo_list = <<>> /\ rhythm_list = <<>> /\ beats_list = <<>>
    /\ m_events = 0 /\ pos = 0 /\ onset = <<>>

\* midi_writer is not running
MIdle ==
    /\ m_pc = "off" /\ m_err = ""
    /\ etude_number = 1 /\ ticks_per_beat = 0
    /\ played = <<>> /\ sign = FALSE /\ ticks = 0
    /\ upper_signature = 0 /\ lower_signature = 0
    /\ m_measure = 1 /\ rhythm = 0 /\ itr = 0
    /\ dynamics = NoValue /\ dynamics_bound = FALSE
    /\ measure_list = <<>> /\ note_list = <<>> /\ dynamics_list = <<>>
    /\ tempo_list = <<>> /\ rhythm_list = <<>> /\ beats_list = <<>>
    /\ m_events = 0 /\ pos = 0 /\ onset = <<>>

\* lines 86-88
MTimeSignature(num, den) ==
    /\ m_pc = "run"
    /\ upper_signature' = num /\ lower_signature' = den
    /\ m_events' = m_events + 1
    /\ UNCHANGED <<m_pc, m_err, etude_number, ticks_per_beat, played, sign,
                   ticks, m_measure, rhythm, itr, dynamics, dynamics_bound,
                   measure_list, note_list, dynamics_list, tempo_list,
                   rhythm_list, beats_list, pos, onset>>

\* the notes that are on: played_vals != 0 (lines 106-107)
Held == {k \in DOMAIN played : played[k] # 0}

\* played with played[n] = v (lines 108 and 113)
Store(n, v) == [k \in (DOMAIN played) \cup {n} |-> IF k = n THEN v ELSE played[k]]

\* the pass stops with exception e
MRaise(e) == m_pc' = "failed" /\ m_err' = e

\* lines 102-134, one note_on message
MNoteOn(n, v, t) ==
    LET etude == etudes[etude_number]
        known == n \in DOMAIN played
        \* lines 105-114
        sign1 == IF v # 0 THEN \E k \in DOMAIN played : played[k] # 0 ELSE TRUE
        ticks1 == IF v # 0 THEN t - 1 ELSE t + 1
        dyn1 == IF v # 0 THEN dynamics ELSE vel2dyn(played[n])
        bound1 == IF v # 0 THEN dynamics_bound ELSE TRUE
        \* line 116, numerator over ticks_per_beat * 4
        beats == ticks1 * lower_signature
        \* line 118
        note1 == IF sign1 THEN n ELSE 0
        \* lines 123-125
        reset == m_measure = etude.start /\ itr # etude_number
        rhythm1 == IF reset THEN (etude.down_beat - 1) * ticks_per_beat * 4
                   ELSE rhythm
        \* line 126
        printed == m_measure >= etude.start /\ m_measure < etude.end
        \* line 133
        rhythm2 == rhythm1 + beats
    IN  /\ m_pc = "run"
        /\ m_events' = m_events + 1
        /\ pos' = pos + t * lower_signature
        /\ onset' = IF v # 0 /\ n \notin Held
                    THEN [k \in (DOMAIN onset) \cup {n} |->
                             IF k = n
                             THEN [pos |-> pos + t * lower_signature, vel |-> v]
                             ELSE onset[k]]
                    ELSE onset
        /\ UNCHANGED <<etude_number, ticks_per_beat, upper_signature,
                       lower_signature>>
        /\ sign' = sign1
        /\ IF v = 0 /\ ~known
           THEN \* line 112: played[note] of a note that was never switched on
                /\ MRaise("KeyError")
                /\ UNCHANGED <<played, ticks, m_measure, rhythm, itr, dynamics,
                               dynamics_bound, measure_list, note_list,
                               dynamics_list, tempo_list, rhythm_list,
                               beats_list>>
           ELSE
           /\ played' = Store(n, v) /\ ticks' = ticks1
           /\ dynamics' = dyn1 /\ dynamics_bound' = bound1
           /\ IF ticks1 <= 0
              THEN UNCHANGED <<m_pc, m_err, m_measure, rhythm, itr,
                               measure_list, note_list, dynamics_list,
                               tempo_list, rhythm_list, beats_list>>
              ELSE IF ticks_per_beat = 0
              THEN \* line 116: Fraction(x, 0)
                   /\ MRaise("ZeroDivisionError")
                   /\ UNCHANGED <<m_measure, rhythm, itr, measure_list,
                                  note_list, dynamics_list, tempo_list,
                                  rhythm_list, beats_list>>
              ELSE
              /\ measure_list' = Append(measure_list, m_measure)
              /\ rhythm_list' = Append(rhythm_list, rhythm)
              /\ beats_list' = Append(beats_list, beats)
              /\ note_list' = Append(note_list, midi2name(note1, 2))
              /\ itr' = IF reset THEN itr + 1 ELSE itr
              /\ IF printed /\ upper_signature = 0
                 THEN \* line 127: rhythm % upper_signature
                      /\ MRaise("ZeroDivisionError")
                      /\ rhythm' = rhythm1
                      /\ UNCHANGED <<m_measure, dynamics_list, tempo_list>>
                 ELSE IF note1 # 0 /\ ~bound1
                 THEN \* line 129: `dynamics` read before any assignment
                      /\ MRaise("NameError")
                      /\ rhythm' = rhythm1
                      /\ UNCHANGED <<m_measure, dynamics_list, tempo_list>>
                 ELSE
                 /\ dynamics_list' =
                        Append(dynamics_list,
                               IF note1 # 0 THEN dyn1 ELSE Word("NA"))
                 /\ tempo_list' = Append(tempo_list, 0)
                 /\ rhythm' = rhythm2
                 /\ IF upper_signature = 0
                    THEN \* line 134: rhythm // upper_signature
                         /\ MRaise("ZeroDivisionError")
                         /\ UNCHANGED m_measure
                    ELSE /\ m_measure' =
                               (rhythm2 \div (ticks_per_beat * 4 * upper_signature)) + 1
                         /\ UNCHANGED <<m_pc, m_err>>

(***************************************************************************)
(* vel2dyn called on its own.                                              *)
(***************************************************************************)
VIdle ==
    /\ velocity = 0 /\ word = NoValue
    /\ prev_velocity = 0 /\ prev_word = NoValue /\ calls = 0

\* word = vel2dyn(velocity)
CallVel2Dyn(v) ==
    /\ calls < MaxCalls
    /\ prev_velocity' = velocity /\ prev_word' = word
    /\ velocity' = v /\ word' = vel2dyn(v)
    /\ calls' = calls + 1

(***************************************************************************)
(* RoseEtudes.name_to_midi and __getitem__ (DataLoader.py).                *)
(***************************************************************************)
\* the dict `name`, lines 54-61
name ==
    [n \in {"rest", "C-", "C", "C#", "C##", "D-", "D", "D#", "E-", "E", "E#",
            "F-", "F", "F#", "F##", "G-", "G", "G#", "G##", "A-", "A", "A#",
            "B--", "B-", "B", "B#"} |->
        CASE n = "rest" -> 0
          [] n = "C-" -> -1 [] n = "C" -> 0 [] n = "C#" -> 1 [] n = "C##" -> 2
          [] n = "D-" -> 1 [] n = "D" -> 2 [] n = "D#" -> 3
          [] n = "E-" -> 3 [] n = "E" -> 4 [] n = "E#" -> 5
          [] n = "F-" -> 4 [] n = "F" -> 5 [] n = "F#" -> 6 [] n = "F##" -> 7
          [] n = "G-" -> 6 [] n = "G" -> 7 [] n = "G#" -> 8 [] n = "G##" -> 9
          [] n = "A-" -> 8 [] n = "A" -> 9 [] n = "A#" -> 10
          [] n = "B--" -> 9 [] n = "B-" -> 10 [] n = "B" -> 11 [] n = "B#" -> 12]

\* line 62: midi = name[note] + (int(octave) + 1) * 12
name_to_midi(nt, oc) == name[nt] + (oc + 1) * 12

\* the (note, octave) columns XMLWriter writes: a pitch, or 'rest' with
\* octave 0 (lines 44, 74 and 95 of XMLWriter.py)
LabelRows ==
    {<<n, o>> : n \in (DOMAIN name) \ {"rest"}, o \in Octaves} \cup {<<"rest", 0>>}

LIdle == label_rows = <<>> /\ rose_labels = <<>>

\* lines 40-42, one row of the comprehension
GetItemRow(r) ==
    /\ Len(label_rows) < MaxRows
    /\ label_rows' = Append(label_rows, r)
    /\ rose_labels' = Append(rose_labels, name_to_midi(r[1], r[2]))

(***************************************************************************)
(* Specifications.                                                         *)
(***************************************************************************)
\* XMLWriter over the files of a directory
Init == XInit /\ MIdle /\ VIdle /\ LIdle

Next ==
    \/ BeginFile /\ UNCHANGED <<mvars, vvars, lvars>>
    \/ \E n \in NoteInputs, ql \in QLs :
          XNote(n[1], n[2], ql) /\ UNCHANGED <<mvars, vvars, lvars>>
    \/ \E ql \in QLs : XRest(ql) /\ UNCHANGED <<mvars, vvars, lvars>>
    \/ XMeasure /\ UNCHANGED <<mvars, vvars, lvars>>
    \/ \E ts \in TimeSigs : XTimeSignature(ts) /\ UNCHANGED <<mvars, vvars, lvars>>
    \/ \E v \in DynamicMarks : XDynamic(v) /\ UNCHANGED <<mvars, vvars, lvars>>
    \/ EndFile /\ UNCHANGED <<mvars, vvars, lvars>>
    \/ Close /\ UNCHANGED <<mvars, vvars, lvars>>

Spec == Init /\ [][Next]_vars

\* XMLWriter over scores that also have several parts or voices, and grace
\* notes (Note elements of quarterLength 0)
ScoreNext ==
    \/ Next
    \/ XPart /\ UNCHANGED <<mvars, vvars, lvars>>
    \/ \E n \in NoteInputs :
          XNote(n[1], n[2], 0) /\ UNCHANGED <<mvars, vvars, lvars>>

ScoreSpec == Init /\ [][ScoreNext]_vars

\* midi_writer over any messages of track 0
MidiInit ==
    /\ XInit /\ VIdle /\ LIdle
    /\ \E en \in DOMAIN etudes, tpb \in Resolutions : MInit(en, tpb)

MidiNext ==
    \/ /\ m_events < MaxMsgs
       /\ \E ts \in MidiTimeSigs : MTimeSignature(ts[1], ts[2])
       /\ UNCHANGED <<xvars, vvars, lvars>>
    \/ /\ m_events < MaxMsgs
       /\ \E n \in MidiNotes, v \in Velocities, t \in Deltas : MNoteOn(n, v, t)
       /\ UNCHANGED <<xvars, vvars, lvars>>

MidiSpec == MidiInit /\ [][MidiNext]_vars

\* midi_writer over uniform quarter notes in 4/4: a time signature, then
\* note on with delta 0 and the matching note off one beat later, repeated

QTimeSignature ==
    /\ m_events = 0
    /\ MTimeSignature(4, 4)
    /\ UNCHANGED <<xvars, vvars, lvars>>

QNoteOn ==
    /\ m_events > 0 /\ Held = {}
    /\ Len(measure_list) < 4 * MaxMeasures
    /\ \E n \in MidiNotes : MNoteOn(n, 64, 0)
    /\ UNCHANGED <<xvars, vvars, lvars>>

QNoteOff ==
    /\ \E n \in Held : MNoteOn(n, 0, ticks_per_beat)
    /\ UNCHANGED <<xvars, vvars, lvars>>

QuarterNext == QTimeSignature \/ QNoteOn \/ QNoteOff

QuarterSpec == MidiInit /\ [][QuarterNext]_vars

\* midi_writer over long notes in 4/4, which reach the start measure of the
\* second etude: a time signature, then note on with delta 0 and the matching
\* note off, repeated
ETimeSignature ==
    /\ m_events = 0
    /\ MTimeSignature(4, 4)
    /\ UNCHANGED <<xvars, vvars, lvars>>

ENoteOn ==
    /\ m_events > 0 /\ Held = {}
    /\ Len(measure_list) < MaxRecords
    /\ \E n \in MidiNotes : MNoteOn(n, 64, 0)
    /\ UNCHANGED <<xvars, vvars, lvars>>

ENoteOff ==
    /\ \E n \in Held, t \in LongDeltas : MNoteOn(n, 0, t)
    /\ UNCHANGED <<xvars, vvars, lvars>>

EtudeNext == ETimeSignature \/ ENoteOn \/ ENoteOff

EtudeSpec == MidiInit /\ [][EtudeNext]_vars

\* vel2dyn called with any velocities
VelNext ==
    \E v \in 0..127 : CallVel2Dyn(v) /\ UNCHANGED <<xvars, mvars, lvars>>

VelSpec == Init /\ [][VelNext]_vars

\* RoseEtudes.__getitem__ over the rows of any label table
LoaderNext ==
    \E r \in LabelRows : GetItemRow(r) /\ UNCHANGED <<xvars, mvars, vvars>>

LoaderSpec == Init /\ [][LoaderNext]_vars

(***************************************************************************)
(* Vocabulary of the properties of XMLWriter.                              *)
(***************************************************************************)
\* the pass over the current file has ended and its table has been stored
Written == pc \in {"idle", "closed"} /\ num_file > 0

\* the table stored for the current file
Stored == Last(label_frame)

RECURSIVE SumQL(_, _)
\* total quarterLength of the elements msgs[a..b]
SumQL(a, b) == IF a > b THEN 0 ELSE msgs[a].ql + SumQL(a + 1, b)

\* the elements of msgs[a..b] that appended a row
RowsOf(a, b) == {k \in a..b : msgs[k].row # 0}

\* a length in quarter lengths, in the unit of the stored table
Beats(ql) == ql * time_denom

\* one measure, in the unit of the stored table
MeasureLen == time_num * BeatDiv

\* msgs[a..b] is a tied group on one pitch: start, continue*, stop
TiedGroup(a, b) ==
    /\ a < b
    /\ msgs[a].cls = "Note" /\ msgs[a].tie = "start"
    /\ msgs[b].cls = "Note" /\ msgs[b].tie = "stop"
    /\ \A k \in (a + 1)..(b - 1) :
          msgs[k].cls = "Note" /\ msgs[k].tie = "continue"
    /\ \A k \in a..b : /\ msgs[k].name = msgs[a].name
                        /\ msgs[k].octave = msgs[a].octave

\* msgs[a..b] is a maximal run of Rest elements
RestRun(a, b) ==
    /\ a <= b
    /\ \A k \in a..b : msgs[k].cls = "Rest"
    /\ a > 1 => msgs[a - 1].cls = "Note"
    /\ b < Len(msgs) => msgs[b + 1].cls = "Note"

(***************************************************************************)
(* C1.  A tied group start, continue x N, stop on one pitch yields exactly *)
(* one record, whose duration is the sum of the durations of the notes of  *)
(* the group, wherever the group stands in the stream.                     *)
(***************************************************************************)
C1_TiedGroupOneRecord ==
    Written =>
        \A a, b \in 1..Len(msgs) :
            TiedGroup(a, b) =>
                /\ RowsOf(a, b) = {a}
                /\ Stored[msgs[a].row].duration = Beats(SumQL(a, b))

(***************************************************************************)
(* C2.  Every maximal run of Rest elements other than the trailing one     *)
(* yields exactly one rest record, whose duration is the total duration of *)
(* the run.                                                                *)
(***************************************************************************)
C2_RestRunOneRecord ==
    Written =>
        \A a, b \in 1..Len(msgs) :
            (RestRun(a, b) /\ b < Len(msgs)) =>
                /\ RowsOf(a, b) = {a}
                /\ Stored[msgs[a].row].note = "rest"
                /\ Stored[msgs[a].row].duration = Beats(SumQL(a, b))

(***************************************************************************)
(* C3.  Every stored table begins with the start sentinel and ends with    *)
(* the end sentinel, both with label rest and dynamic none, and holds no   *)
(* sentinel in between.                                                    *)
(***************************************************************************)
IsSentinel(r, tag) ==
    r.tag = tag /\ r.note = "rest" /\ r.octave = 0 /\ r.dynamic = "none"

C3_SentinelsFirstAndLast ==
    \A f \in 1..Len(label_frame) :
        LET t == label_frame[f]
        IN  /\ Len(t) >= 2
            /\ IsSentinel(t[1], "start")
            /\ IsSentinel(t[Len(t)], "end")
            /\ \A i \in 2..(Len(t) - 1) : t[i].tag \notin {"start", "end"}

(***************************************************************************)
(* C4.  The start sentinel has start_beat 1 and duration 0, whatever the   *)
(* offset of the first content record.                                     *)
(***************************************************************************)
C4_StartSentinelZero ==
    \A f \in 1..Len(label_frame) :
        \A i \in 1..Len(label_frame[f]) :
            label_frame[f][i].tag = "start" =>
                /\ label_frame[f][i].start_beat = BeatDiv
                /\ label_frame[f][i].duration = 0

(***************************************************************************)
(* C5.  The end sentinel ends on the first measure boundary after the      *)
(* position at which it starts: its duration is next_measure_boundary -    *)
(* last_position, for every numerator and denominator.                     *)
(***************************************************************************)
C5_EndSentinelToBoundary ==
    Written =>
        LET n == Len(Stored)
        IN  Stored[n].duration = Boundary(stamps[n], MeasureLen) - stamps[n]

(***************************************************************************)
(* C6.  For the input [TimeSignature 4/4, Note C4 at offset 0, no tie, one *)
(* beat long] the table is: start sentinel (beat 1, duration 0), C4        *)
(* (beat 1, duration 1), end sentinel (beat 2, duration 3).                *)
(***************************************************************************)
C6Input ==
    /\ msgs = <<Msg("Note", "C", 4, "none", 0, 1, 2)>>
    /\ sigs = 1 /\ sig_at = 0 /\ time_num = 4 /\ time_denom = 4
    /\ measure = 0 /\ dynamic = "none"

C6_QuarterNoteScenario ==
    (Written /\ C6Input) =>
        /\ Len(Stored) = 3
        /\ IsSentinel(Stored[1], "start")
        /\ Stored[1].start_beat = BeatDiv /\ Stored[1].duration = 0
        /\ Stored[2].note = "C" /\ Stored[2].octave = 4
        /\ Stored[2].start_beat = BeatDiv /\ Stored[2].duration = BeatDiv
        /\ IsSentinel(Stored[3], "end")
        /\ Stored[3].start_beat = 2 * BeatDiv
        /\ Stored[3].duration = 3 * BeatDiv

(***************************************************************************)
(* C7.  When the stream ends in a run of Rest elements after the last      *)
(* Note, the row dropped before the end sentinel is the rest row of that   *)
(* run (the rows before it are kept), the end sentinel starts where the    *)
(* run began, and the span of the run is counted in its duration.          *)
(***************************************************************************)
\* the rows that msgs[1..b] appended, as the stored table shows them
RowsKept(b) ==
    \A k \in 1..b :
        LET m == msgs[k]
        IN  m.row # 0 =>
                /\ m.row <= Len(Stored)
                /\ Stored[m.row].note = m.name
                /\ Stored[m.row].octave = m.octave
                /\ Stored[m.row].tag \notin {"start", "end"}

\* msgs[a..] is the trailing run of rests after the last Note
TrailingRun(a) == a > 1 /\ RestRun(a, Len(msgs))

C7_TrailingRestAbsorbed ==
    Written =>
        \A a \in 1..Len(msgs) :
            TrailingRun(a) =>
                LET r == msgs[a].row
                IN  /\ RowsOf(a, Len(msgs)) = {a}
                    /\ Len(Stored) = r
                    /\ IsSentinel(Stored[r], "end")
                    /\ IsSentinel(Stored[1], "start")
                    /\ RowsKept(a - 1)
                    /\ stamps[r] = Beats(msgs[a].off)
                    /\ Stored[r].duration >= Beats(SumQL(a, Len(msgs)))

\* the part of C7 that concerns the dropped row and the start of the sentinel
TrailingRestDropped ==
    Written =>
        \A a \in 1..Len(msgs) :
            TrailingRun(a) =>
                LET r == msgs[a].row
                IN  /\ RowsOf(a, Len(msgs)) = {a}
                    /\ Len(Stored) = r
                    /\ IsSentinel(Stored[r], "end")
                    /\ IsSentinel(Stored[1], "start")
                    /\ RowsKept(a - 1)
                    /\ stamps[r] = Beats(msgs[a].off)

(***************************************************************************)
(* C9.  For a well-formed input (one constant time signature, no dangling  *)
(* tie) the durations of the records that start within a measure sum to    *)
(* the numerator of the measure.                                           *)
(***************************************************************************)
\* one time signature, set before the first Note or Rest
ConstantTS == sigs = 1 /\ sig_at = 0

\* no dangling tie: continue and stop follow a start or continue, start and
\* continue are followed by a continue or stop
WellTied ==
    \A k \in 1..Len(msgs) :
        LET m == msgs[k]
        IN  /\ (m.cls = "Note" /\ m.tie \in {"continue", "stop"}) =>
                  /\ k > 1
                  /\ msgs[k - 1].cls = "Note"
                  /\ msgs[k - 1].tie \in {"start", "continue"}
            /\ (m.cls = "Note" /\ m.tie \in {"start", "continue"}) =>
                  /\ k < Len(msgs)
                  /\ msgs[k + 1].cls = "Note"
                  /\ msgs[k + 1].tie \in {"continue", "stop"}

HasNote == \E i \in 1..Len(msgs) : msgs[i].cls = "Note"

\* the stored records that start within measure k (k = 0 is the first)
StartIn(k) == {i \in 1..Len(Stored) : stamps[i] \div MeasureLen = k}

RECURSIVE SumDuration(_)
SumDuration(S) ==
    IF S = {} THEN 0
    ELSE LET i == CHOOSE x \in S : TRUE
         IN  Stored[i].duration + SumDuration(S \ {i})

BarlinesStored(p) ==
    \A k \in 0..Len(msgs) :
        k * MeasureLen <= p => \E i \in 1..Len(Stored) : stamps[i] = k * MeasureLen

C8_QuarterNotesExact ==
    \A N \in 1..MaxMeasures :
        (m_pc = "run" /\ Held = {} /\ Len(measure_list) = 4 * N) =>
            /\ rhythm = 4 * N * (ticks_per_beat * 4)
            /\ m_measure = N + 1

C11_RestIsZeroOnly ==
    \A i \in 1..Len(label_rows) :
        /\ label_rows[i][1] = "rest" => rose_labels[i] = 0
        /\ \A j \in 1..Len(label_rows) :
              (label_rows[i][1] = "rest" /\ label_rows[j][1] # "rest") =>
                  rose_labels[j] # rose_labels[i]

\* the second half alone: no pitch shares the number of the rest
C11_NoPitchAsRest ==
    \A i, j \in 1..Len(label_rows) :
        (label_rows[i][1] = "rest" /\ label_rows[j][1] # "rest") =>
            rose_labels[j] # rose_labels[i]

(***************************************************************************)
(* C12.  With the time signature missing or zero (no TimeSignature before  *)
(* the first timed element) the pass fails before any timed element is     *)
(* processed: no content row is appended while no time signature has been  *)
(* read, and no table is stored for a file whose first stored Note or Rest *)
(* came before its time signature.                                         *)
(***************************************************************************)
C12_FailsBeforeTimedEvent ==
    /\ (pc = "loop" /\ sigs = 0) => (Len(data) = 1 /\ Len(duration) = 1)
    /\ (Written /\ sigs = 1) => RowsOf(1, sig_at) = {}

(***************************************************************************)
(* C13.  A tie stop or continue that arrives while no note is held (no     *)
(* start or continue right before it) is surfaced as an error: no table is *)
(* stored for a file in which one occurs.                                  *)
(***************************************************************************)
\* msgs[k] is a tie stop or continue with no held note before it
Dangling(k) ==
    /\ msgs[k].cls = "Note" /\ msgs[k].tie \in {"continue", "stop"}
    /\ \/ k = 1
       \/ msgs[k - 1].cls # "Note"
       \/ msgs[k - 1].tie \notin {"start", "continue"}

C13_DanglingTieSurfaced ==
    Written => \A k \in 1..Len(msgs) : ~Dangling(k)

(***************************************************************************)
(* C14.  An input whose Note and Rest elements are not ordered in time (an *)
(* offset smaller than that of the record emitted before it) is rejected   *)
(* as a whole: no table is stored for it, and no stored record has a       *)
(* negative duration.                                                      *)
(***************************************************************************)
\* msgs[k] starts before the record emitted last before it
Unordered(k) ==
    \E j \in 1..(k - 1) :
        /\ msgs[j].row # 0
        /\ \A i \in (j + 1)..(k - 1) : msgs[i].row = 0
        /\ msgs[k].off < msgs[j].off

C14_UnorderedRejected ==
    /\ Written => \A k \in 1..Len(msgs) : ~Unordered(k)
    /\ \A f \in 1..Len(label_frame) :
          \A i \in 1..Len(label_frame[f]) : label_frame[f][i].duration >= 0

(***************************************************************************)
(* C15.  A pass that fails on one file emits nothing for that file (a      *)
(* dataset is created only by the step that ends a pass successfully,      *)
(* whole) and leaves the datasets of the earlier files unchanged.          *)
(***************************************************************************)
C15_FailedPassEmitsNothing ==
    [][/\ pc' = "failed" => label_frame' = label_frame
       /\ \A f \in 1..Len(label_frame) :
             f <= Len(label_frame') /\ label_frame'[f] = label_frame[f]
       /\ label_frame' # label_frame =>
             /\ pc = "loop" /\ pc' = "idle" /\ err' = ""
             /\ Len(label_frame') = Len(label_frame) + 1
             /\ Last(label_frame') = data'
             /\ Len(data') = Len(EndData)]_vars

\* a pass has failed after the table of an earlier file was stored
C15_Witness ==
    pc = "failed" /\ Len(label_frame) >= 1 /\ Len(data) >= 2

(***************************************************************************)
(* C16.  No state is carried from one pass to the next: what a file yields *)
(* (its records, or its failure) is what it yields when it is processed    *)
(* first.  A file without a Note and without a stored Rest, processed      *)
(* first, ends in the NameError of line 87; so it does wherever it stands. *)
(***************************************************************************)
\* the pass over the current file has assigned `time`
TimeSet == \E k \in 1..Len(msgs) : msgs[k].cls = "Note" \/ msgs[k].row # 0

\* what such a file yields when it is the first one
FirstFileNameError ==
    (num_file = 0 /\ pc = "failed" /\ ~TimeSet) => err = "NameError"

C16_PassIndependent ==
    /\ (pc = "failed" /\ ~TimeSet) => err = "NameError"
    /\ Written => TimeSet

(***************************************************************************)
(* C17.  A TimeSignature change takes effect only from then on: the        *)
(* start_beat of a record that starts before the change is computed with   *)
(* the time signature that was in force when the record started.           *)
(***************************************************************************)
\* one time signature was in force from the start of the file to msgs[k]
SameSignatureTo(k) ==
    /\ msgs[k].num # 0
    /\ \A j \in 1..k : msgs[j].num = msgs[k].num /\ msgs[j].denom = msgs[k].denom

C17_StartBeatOfItsSignature ==
    Written =>
        \A k \in 1..Len(msgs) :
            (msgs[k].row # 0 /\ msgs[k].row <= Len(Stored) /\ SameSignatureTo(k)) =>
                Stored[msgs[k].row].start_beat =
                    ((msgs[k].off * msgs[k].denom) % (msgs[k].num * BeatDiv))
                        + BeatDiv

\* C17 on the files whose time signature never changes
StartBeatConstantSignature ==
    (Written /\ ConstantTS) =>
        \A k \in 1..Len(msgs) :
            (msgs[k].row # 0 /\ msgs[k].row <= Len(Stored)) =>
                Stored[msgs[k].row].start_beat =
                    ((msgs[k].off * msgs[k].denom) % (msgs[k].num * BeatDiv))
                        + BeatDiv

(***************************************************************************)
(* C18.  The position within the measure recorded with every record stays  *)
(* within one measure: 0 <= offset < numerator for the `rhythm` values     *)
(* that midi_writer records.                                               *)
(***************************************************************************)
C18_RhythmWithinMeasure ==
    (m_pc = "run" /\ upper_signature > 0) =>
        \A i \in 1..Len(rhythm_list) :
            /\ 0 <= rhythm_list[i]
            /\ rhythm_list[i] < upper_signature * (ticks_per_beat * 4)

\* the same bound on the start_beat that XMLWriter stores (in 1/BeatDiv beats)
StartBeatWithinMeasure ==
    /\ \A f \in 1..Len(label_frame) :
          \A i \in 1..Len(label_frame[f]) :
              BeatDiv <= label_frame[f][i].start_beat
    /\ Written => \A i \in 1..Len(Stored) :
                      Stored[i].start_beat < (time_num + 1) * BeatDiv

(***************************************************************************)
(* C19.  The record emitted when a held note is released carries the name  *)
(* of its pitch, the dynamic of the velocity of the note_on that started   *)
(* it, the position of that note_on as its start, and as its duration the  *)
(* position at the release minus the position at its start, whatever       *)
(* messages come in between.                                               *)
(***************************************************************************)
\* this step switches off note n, which was on, and emits a record
Release(n) ==
    /\ n \in Held /\ played'[n] = 0 /\ m_pc' = "run"
    /\ Len(measure_list') = Len(measure_list) + 1

C19_ReleaseRecord ==
    [][\A n \in MidiNotes :
          Release(n) =>
              /\ Last(note_list') = midi2name(n, 2)
              /\ Last(dynamics_list') = vel2dyn(onset[n].vel)
              /\ Last(rhythm_list') = onset[n].pos
              /\ Last(beats_list') = pos' - onset[n].pos]_vars

(***************************************************************************)
(* C20.  For an input whose Note and Rest elements come in non-decreasing  *)
(* time order, every record after the successor of the start sentinel      *)
(* starts strictly later than the record before it, and no content record  *)
(* has a duration of 0 or less.                                            *)
(***************************************************************************)
NonDecreasing ==
    \A k \in 1..(Len(msgs) - 1) : msgs[k].off <= msgs[k + 1].off

StrictlyIncreasing ==
    \A k \in 1..(Len(msgs) - 1) : msgs[k].off < msgs[k + 1].off

RecordsStrictlyLater ==
    /\ \A i \in 3..Len(Stored) : stamps[i] > stamps[i - 1]
    /\ \A i \in 2..(Len(Stored) - 1) : Stored[i].duration > 0

C20_NonDecreasingOrder ==
    (Written /\ NonDecreasing) => RecordsStrictlyLater

\* C20 on the inputs whose offsets increase strictly
StrictInputStrictRecords ==
    (Written /\ StrictlyIncreasing) => RecordsStrictlyLater

(***************************************************************************)
(* C21.  Labels and timings stay aligned on every path: inside the loop    *)
(* `duration` and `data` have the same length; when the table is assembled *)
(* there is one time stamp more than there are rows, in both branches of   *)
(* the end of the stream (trailing rest removed, or second boundary        *)
(* appended), so np.hstack never fails; each row has one start_beat and    *)
(* one duration, row i spans from time stamp i to time stamp i + 1, and    *)
(* the durations of all rows sum to the last time stamp.                   *)
(***************************************************************************)
C21_LabelsAndTimingsAligned ==
    /\ pc = "loop" =>
          /\ Len(duration) = Len(data)
          /\ time_num > 0 => Len(EndDuration) = Len(EndData) + 1
    /\ pc = "failed" => err \in {"NameError", "ZeroDivisionError"}
    /\ Written =>
          /\ Len(stamps) = Len(Stored) + 1
          /\ Len(start_beat) = Len(Stored) /\ Len(duration) = Len(Stored)
          /\ stamps[1] = 0
          /\ \A i \in 1..Len(Stored) :
                /\ Stored[i].start_beat = start_beat[i]
                /\ Stored[i].duration = duration[i]
                /\ Stored[i].duration = stamps[i + 1] - stamps[i]
          /\ SumDuration(1..Len(Stored)) = Last(stamps)

\* a table with a content record was assembled after the trailing rest row
\* was removed
C21_Witness ==
    /\ Written /\ still_rest /\ Len(Stored) >= 3
    /\ \E k \in 1..Len(msgs) : msgs[k].cls = "Rest" /\ msgs[k].row = Len(Stored)

(***************************************************************************)
(* C22.  In midi_writer, after every emitted record the measure counter is *)
(* floor(rhythm / upper_signature) + 1, and with one constant time         *)
(* signature the measure numbers of successive records never decrease,     *)
(* for etude_number 1 and 2, the reset to the down beat at the start       *)
(* measure of the etude included.                                          *)
(***************************************************************************)
\* the counter after a record
MeasureOfRhythm ==
    (m_pc = "run" /\ Len(measure_list) > 0) =>
        m_measure = (rhythm \div (upper_signature * ticks_per_beat * 4)) + 1

\* the measure numbers of the records
MeasuresNeverDecrease ==
    \A i \in 1..(Len(measure_list) - 1) : measure_list[i] <= measure_list[i + 1]

C22_MeasureCounter == MeasureOfRhythm /\ MeasuresNeverDecrease

\* the second half for etude_number 1 alone
FirstEtudeNeverDecreases == etude_number = 1 => MeasuresNeverDecrease

====
